---- MODULE Spec2Model ----
(***************************************************************************)
(* The RAG index subsystem of faq_server (rag_handler: src/unnamed/part_000*)
(* and its callers in src/index.js).                                       *)
(*                                                                         *)
(* State: the four files (questions.json, vectors_cache.json,              *)
(* questions_indices_hash.json, questions_hash.txt), the module globals    *)
(* (questionsData, isInitialized, ragApp), and, per caller, the locals of  *)
(* one initializeRAG activation (its vectorDatabase, cacheLoaded, the      *)
(* loop position).  One action per await-delimited step of the code.       *)
(*                                                                         *)
(* A QA record is abstracted to a content id: two records have the same id *)
(* iff they agree on question, answer, category, audience and keyword set. *)
(* Indices are zero-based as in the code; TLA+ sequences are one-based, so *)
(* record i of a list q is q[i + 1].                                       *)
(***************************************************************************)
EXTENDS Integers, Sequences, FiniteSets, TLC

\* ------------------------------------------------------------------ bounds
MaxLen == 2        \* longest corpus explored
NumContents == 2   \* distinct record contents explored
MaxEnv == 2        \* environment events (CRUD writes, file deletions, faults, restarts) per run
LenStep == 600     \* tagged-text length of content c is c * LenStep characters
MaxPasses == 3     \* passes started per run when requests overlap
MaxWrites == 1     \* CRUD writes per run when requests overlap
ConcLen == 1       \* longest initial corpus when requests overlap
MutLen == 0        \* longest initial corpus when mutations overlap
MutWrites == 2     \* CRUD writes per run when mutations overlap
MutPasses == 3     \* passes started per run when mutations overlap

MaxScore == 1      \* similarity scores explored: 0..MaxScore
MaxStr == 3        \* longest string given as topK
SrchLen == 1       \* longest initial corpus when a search is served
SrchPasses == 2    \* passes started per run when a search is served
SrchK == 1         \* largest topK asked for when a search is served
QryLen == 1        \* longest initial corpus when a search is served among sequential requests
QryEnv == 1        \* environment events per run when a search is served among sequential requests
MaxChunks == 2     \* most chunks held by a store used on its own
MaxK == 2          \* largest topK given to similaritySearch
MaxKw == 2         \* most keywords of a record whose digest is taken
NumHandlers == 2   \* CRUD handlers taken await by await, one request each
CrudLen == 1       \* longest initial corpus when CRUD handlers are taken await by await
CrudPasses == 3    \* passes started per run when CRUD handlers are taken await by await
KwLen == 2         \* longest corpus of records with keywords

\* --------------------------------------------------------- program constants
CHUNK_SIZE == 1000
CHUNK_OVERLAP == 100
MAX_LIMIT == 50          \* Math.min(parseInt(topK), 50)
DEFAULT_LIMIT == 10      \* the limit when topK is unusable
NoContent == 0           \* question = '', answer = '': the hit resolved to no record

Procs == {1, 2}          \* concurrent callers (HTTP handlers, the listen callback)
Contents == 1..NumContents
InitialContents == {1, 2}   \* the records questions.json starts with: one of one chunk, one of two
NoApp == 0               \* ragApp = null
NoTag == -1              \* a chunk whose pageContent holds no [INDEX:n] tag

VARIABLES
    corpusFile,      \* questions.json: the list of records
    cacheFile,       \* vectors_cache.json: [exists, valid, vectors]
    ledgerFile,      \* questions_indices_hash.json: [exists, map], map[i + 1] = digest of index i
    hashFile,        \* questions_hash.txt: [exists, of], of = the corpus whose bytes were hashed
    questionsData,   \* module global, set by loadQuestions
    isInitialized,   \* module global
    ragApp,          \* module global: the caller whose vectorDatabase the app wraps, or NoApp
    db,              \* db[p]: vectorDatabase.vectors of p's activation
    pc,              \* pc[p]: where p's activation of initializeRAG stands
    cacheLoaded,     \* cacheLoaded[p]: local of initializeRAG
    todo,            \* todo[p]: indicesToProcess not yet embedded (incremental path)
    cursor,          \* cursor[p]: loop variable i of the full-rebuild loop
    booted,          \* the listen callback has called initializeRAG
    env,             \* the environment: events still allowed, kinds seen, whether I/O may fail
    hist,            \* hist[p]: history of p's current pass (observation only)
    snap,            \* the store, cache and ledger when the last pass completed (observation only)
    chunkMetadataMap, \* module global Map: <<[index, content]>> in insertion order of the keys question_<index>
    req,             \* the topK of the body of the POST /search request being served, or NoReq
    srch,            \* the call of searchSimilarQuestions being served: [stage, app, topK]
    hits,            \* what that call returned
    store,           \* a SimpleMemoryVectorDatabase used on its own: [vectors, dimensions]
    file,            \* the file that store saves to and the second store loads from
    loaded,          \* a second SimpleMemoryVectorDatabase, loaded from file
    last,            \* the last call on store: [op, arg, ret, before] (observation only)
    pair,            \* two records and what calculateQuestionHash made of them
    handlers         \* the POST/PUT/DELETE /questions requests being served: [base, of]

vars == <<corpusFile, cacheFile, ledgerFile, hashFile, questionsData, isInitialized,
          ragApp, db, pc, cacheLoaded, todo, cursor, booted, env, hist, snap,
          chunkMetadataMap, req, srch, hits, store, file, loaded, last, pair, handlers>>

program == <<corpusFile, cacheFile, ledgerFile, hashFile, questionsData, isInitialized,
             ragApp, db, pc, cacheLoaded, todo, cursor, booted, env, hist, snap,
             chunkMetadataMap, req, srch, hits>>
alone == <<store, file, loaded, last, pair, handlers>>

files == <<corpusFile, cacheFile, ledgerFile, hashFile>>
locals == <<cacheLoaded, todo, cursor>>
searching == <<req, srch, hits>>
memoryVars == <<questionsData, isInitialized, ragApp, db, pc, locals, booted, hist, snap>>

\* ------------------------------------------------------------ pure helpers

RECURSIVE SeqsUpTo(_, _)
\* all sequences over S of length at most n
SeqsUpTo(S, n) ==
    IF n = 0 THEN {<<>>}
    ELSE LET shorter == SeqsUpTo(S, n - 1)
         IN shorter \cup {Append(s, x) : s \in {t \in shorter : Len(t) = n - 1}, x \in S}

RECURSIVE SortAsc(_)
\* [...a].sort((a, b) => a - b) of a set of distinct integers
SortAsc(S) ==
    IF S = {} THEN <<>>
    ELSE LET m == CHOOSE x \in S : \A y \in S : x <= y
         IN <<m>> \o SortAsc(S \ {m})

\* calculateQuestionHash: the md5 of the JSON of question, answer, category,
\* audience and the sorted keywords. A content id stands for one value of that
\* JSON, so the digest is injective on content ids (md5 collisions are outside
\* the model).
calculateQuestionHash(c) == c

\* calculateQuestionsIndicesHash on a readable corpus: indicesHash[index] for every index
IndicesHashOf(q) == [k \in 1..Len(q) |-> calculateQuestionHash(q[k])]

\* length in characters of textWithMetadata for content c
TaggedLen(c) == c * LenStep

\* Number of chunks the TextLoader's splitter makes of a text of n characters:
\* pieces of at most chunkSize characters, consecutive pieces sharing chunkOverlap.
SplitCount(n) ==
    IF n <= CHUNK_SIZE THEN 1
    ELSE 1 + ((n - CHUNK_SIZE) + (CHUNK_SIZE - CHUNK_OVERLAP) - 1) \div (CHUNK_SIZE - CHUNK_OVERLAP)

\* The chunks ragApp.addLoader inserts for record content c embedded as index i.
\* The [INDEX:i] tag opens the text, so only the first piece holds it; the
\* loader's metadata object carries no index field.
\* idx is what /\[INDEX:(\d+)\]/ finds in the chunk's pageContent; rec and at say
\* which record content, at which index, the chunk's text was built from.
ChunksOf(i, c) ==
    [k \in 1..SplitCount(TaggedLen(c)) |->
        [idx |-> IF k = 1 THEN i ELSE NoTag, rec |-> c, at |-> i]]

\* (variant) a chunk without a tag is removed as well
deleteVectorsByIndex_DropsUntagged(vectors, index) ==
    LET Keep(v) == v.idx # NoTag /\ v.idx # index
    IN SelectSeq(vectors, Keep)

\* SimpleMemoryVectorDatabase.deleteVectorsByIndex.  No chunk of this program
\* has a metadata.index (the loader's metadata carries none), so the tag in
\* pageContent decides alone.
deleteVectorsByIndex(vectors, index) ==
    LET Keep(v) == IF v.idx # NoTag THEN v.idx # index ELSE TRUE
    IN SelectSeq(vectors, Keep)

RECURSIVE DeleteAll(_, _)
DeleteAll(vectors, indices) ==
    IF indices = <<>> THEN vectors
    ELSE DeleteAll(deleteVectorsByIndex(vectors, Head(indices)), Tail(indices))

\* SimpleMemoryVectorDatabase.getVectorCountByIndex
getVectorCountByIndex(vectors, index) ==
    Cardinality({k \in 1..Len(vectors) : vectors[k].idx # NoTag /\ vectors[k].idx = index})

\* a comparison that takes every stored index for changed
ChangedOf_EveryStored(cur, stored) ==
    {i \in 0..(Len(cur) - 1) : i < Len(stored)}

\* findChangedQuestions, given the two digest maps it read
ChangedOf(cur, stored) ==
    {i \in 0..(Len(cur) - 1) : i < Len(stored) /\ stored[i + 1] # cur[i + 1]}
NewOf(cur, stored) ==
    {i \in 0..(Len(cur) - 1) : i >= Len(stored)}
DeletedOf(cur, stored) ==
    {i \in 0..(Len(stored) - 1) : i >= Len(cur)}

\* a calculateQuestionsIndicesHash that lets the read error escape
calculateQuestionsIndicesHash_Rethrow(ok, q) ==
    IF ok THEN [threw |-> FALSE, map |-> IndicesHashOf(q)]
    ELSE [threw |-> TRUE, map |-> <<>>]

\* calculateQuestionsIndicesHash: the digest map of the corpus it read, and {}
\* (with the error only logged) when the read or the parse failed.
calculateQuestionsIndicesHash(ok, q) ==
    IF ok THEN [threw |-> FALSE, map |-> IndicesHashOf(q)]
    ELSE [threw |-> FALSE, map |-> <<>>]

\* getStoredIndicesHash: the stored digest map, {} when the file is missing
getStoredIndicesHash(f) == IF f.exists THEN f.map ELSE <<>>

\* (variant) a file that does not parse is taken as a cache of what could be read
loadFromFile_ReadsPartial(f) ==
    IF f.exists
    THEN [found |-> TRUE,
          vectors |-> IF f.valid THEN f.vectors ELSE <<[idx |-> 0, rec |-> 1, at |-> 0]>>]
    ELSE [found |-> FALSE, vectors |-> <<>>]

\* SimpleMemoryVectorDatabase.loadFromFile: [found, vectors]
loadFromFile(f) ==
    IF f.exists /\ f.valid THEN [found |-> TRUE, vectors |-> f.vectors]
    ELSE [found |-> FALSE, vectors |-> <<>>]

\* SimpleMemoryVectorDatabase.saveToFile: the file after the call; a failed
\* write is logged, false is returned, and the file is what it was.
saveToFile(ok, f, vectors) ==
    IF ok THEN [exists |-> TRUE, valid |-> TRUE, vectors |-> vectors] ELSE f

\* saveIndicesHash: the file after the call (a failed write is only logged)
saveIndicesHash(ok, f, map) ==
    IF ok THEN [exists |-> TRUE, map |-> map] ELSE f

\* calculateQuestionsHash + saveHash: saved only when the corpus could be read
saveHash(okRead, okWrite, f, q) ==
    IF okRead /\ okWrite THEN [exists |-> TRUE, of |-> q] ELSE f

\* -------------------------------------------------------------- the search

Min(a, b) == IF a <= b THEN a ELSE b
Max(a, b) == IF a >= b THEN a ELSE b

\* Array.prototype.slice(0, k): the first k elements, or all but the last -k when k < 0
Slice(s, k) ==
    IF k >= 0 THEN SubSeq(s, 1, Min(k, Len(s))) ELSE SubSeq(s, 1, Max(0, Len(s) + k))

\* (variant) r is put before the elements of equal score
InsertDesc_BeforeEqual(rs, r) ==
    LET n == Cardinality({k \in 1..Len(rs) : rs[k].score > r.score})
    IN SubSeq(rs, 1, n) \o <<r>> \o SubSeq(rs, n + 1, Len(rs))

\* where a stable descending sort puts r among the already sorted rs: after
\* every element whose score is not lower
InsertDesc(rs, r) ==
    LET n == Cardinality({k \in 1..Len(rs) : rs[k].score >= r.score})
    IN SubSeq(rs, 1, n) \o <<r>> \o SubSeq(rs, n + 1, Len(rs))

\* an order that leaves the results as they are
SortDesc_Unsorted(rs) == rs

RECURSIVE SortDesc(_)
\* results.sort((a, b) => b.score - a.score); Array.prototype.sort is stable
SortDesc(rs) ==
    IF rs = <<>> THEN <<>>
    ELSE InsertDesc(SortDesc(SubSeq(rs, 1, Len(rs) - 1)), rs[Len(rs)])

\* SimpleMemoryVectorDatabase.similaritySearch: sc[v] is the cosine similarity
\* of the query vector and the vector of chunk v
similaritySearch(vectors, sc, topK) ==
    Slice(SortDesc([k \in 1..Len(vectors) |-> [chunk |-> vectors[k], score |-> sc[vectors[k]]]]),
          topK)

\* The result at position pos of limitedResults becomes a hit.  A tagged chunk
\* is looked up in questionsData; an untagged one (the loader's metadata
\* carries no index) takes the first entry of chunkMetadataMap whose question
\* or answer occurs in the chunk's text: the text of a later chunk ends with
\* the record's own question, so an entry matches when it holds the content
\* the chunk was built from.  index = NoTag stands for null.
Resolve(result, pos, qd, cmm) ==
    LET v == result.chunk
        found == {k \in 1..Len(cmm) : cmm[k].content = v.rec}
        first == CHOOSE k \in found : \A j \in found : k <= j
        index == IF v.idx # NoTag THEN v.idx
                 ELSE IF found # {} THEN cmm[first].index ELSE NoTag
        content == IF v.idx # NoTag
                   THEN (IF v.idx < Len(qd) THEN qd[v.idx + 1] ELSE NoContent)
                   ELSE IF found # {} THEN cmm[first].content ELSE NoContent
    IN [index |-> index, content |-> content, similarity |-> result.score,
        rank |-> pos, chunk |-> v]

\* searchSimilarQuestions from `ragApp.search` on: n is the number of results
\* the library asks the vector database for
searchHits(vectors, sc, n, topK, qd, cmm) ==
    LET results == similaritySearch(vectors, sc, n)
        limitedResults == Slice(results, topK)
    IN [k \in 1..Len(limitedResults) |-> Resolve(limitedResults[k], k, qd, cmm)]

\* ------------------------------------------- the vector store on its own

\* this.dimensions = null
NoDim == 0
\* new SimpleMemoryVectorDatabase()
NewStore == [vectors |-> <<>>, dimensions |-> NoDim]

\* the dimensionalities of the embedders, the components of the vectors they
\* deliver for a text and for a query, and the vectors of n components
Dims == {1, 2}
Comps == {0, 1}
\* the indices tagged in the texts of the chunks
Tags == {0, 1}
QueryComps == {-1, 0, 1}
VecsOf(n, C) == [1..n -> C]

\* the chunks the library hands to insertChunks when the embedder has n
\* dimensions: a text with or without an [INDEX:i] tag, and its vector
ChunkInputs(n) ==
    {[idx |-> i, vec |-> v] : i \in {NoTag} \cup Tags, v \in VecsOf(n, Comps)}

\* (variant) init that starts from an empty store
init_Resets(s, dimensions) == [vectors |-> <<>>, dimensions |-> dimensions]

\* SimpleMemoryVectorDatabase.init({ dimensions })
init(s, dimensions) ==
    [vectors |-> IF Len(s.vectors) = 0 THEN <<>> ELSE s.vectors,
     dimensions |-> dimensions]

\* SimpleMemoryVectorDatabase.insertChunks: each chunk is pushed
insertChunks(s, chunks) == [s EXCEPT !.vectors = @ \o chunks]

RECURSIVE SumTo(_, _)
\* the sum of f[1] .. f[n]
SumTo(f, n) == IF n = 0 THEN 0 ELSE SumTo(f, n - 1) + f[n]

RECURSIVE Factorial(_)
Factorial(n) == IF n = 0 THEN 1 ELSE n * Factorial(n - 1)

\* A cosine c is written as the integer sign(c) * c^2 * CosineScale, which
\* keeps the order of the cosines and their zero.  normA and normB are at most
\* the largest dimensionality for the vectors explored, so the division is exact.
CosineScale ==
    LET m == CHOOSE d \in Dims : \A e \in Dims : e <= d
    IN Factorial(m) * Factorial(m)

\* SimpleMemoryVectorDatabase.cosineSimilarity
cosineSimilarity(vecA, vecB) ==
    IF Len(vecA) # Len(vecB) THEN 0
    ELSE LET dotProduct == SumTo([i \in 1..Len(vecA) |-> vecA[i] * vecB[i]], Len(vecA))
             normA == SumTo([i \in 1..Len(vecA) |-> vecA[i] * vecA[i]], Len(vecA))
             normB == SumTo([i \in 1..Len(vecA) |-> vecB[i] * vecB[i]], Len(vecA))
         IN IF normA = 0 \/ normB = 0 THEN 0
            ELSE (IF dotProduct < 0 THEN -1 ELSE 1)
                     * ((dotProduct * dotProduct * CosineScale) \div (normA * normB))

\* the scores similaritySearch gives the chunks of a store for a query vector
ScoresOf(vectors, queryVector) ==
    [c \in {vectors[k] : k \in 1..Len(vectors)} |-> cosineSimilarity(queryVector, c.vec)]

\* a || b on a number or null: null and 0 are falsy
OrElse(a, b) == IF a = NoDim THEN b ELSE a

\* (variant) a cache written without the dimensions
stringifyCache_NoDimensions(s) ==
    [vectors |-> [k \in 1..Len(s.vectors) |->
                     [pageContent |-> s.vectors[k].idx, vector |-> s.vectors[k].vec]]]

\* saveToFile: JSON.stringify({ vectors, dimensions, savedAt }).  The texts
\* and the finite numbers of the vectors are written as they are; a field
\* that is missing is left out, null is written for dimensions not yet set.
stringifyCache(s) ==
    [vectors |-> [k \in 1..Len(s.vectors) |->
                     [pageContent |-> s.vectors[k].idx, vector |-> s.vectors[k].vec]],
     dimensions |-> s.dimensions,
     savedAt |-> "now"]

\* loadFromFile: JSON.parse, this.vectors = cache.vectors || [],
\* this.dimensions = cache.dimensions || null
parseCache(text) ==
    [vectors |-> IF "vectors" \in DOMAIN text
                 THEN [k \in 1..Len(text.vectors) |->
                          [idx |-> text.vectors[k].pageContent, vec |-> text.vectors[k].vector]]
                 ELSE <<>>,
     dimensions |-> IF "dimensions" \in DOMAIN text THEN OrElse(text.dimensions, NoDim)
                    ELSE NoDim]

\* how many times chunk c occurs in a chunk list
Count(vectors, c) == Cardinality({k \in 1..Len(vectors) : vectors[k] = c})

\* --------------------------------------------------- the digest of a record

\* a field that a record does not have
Undefined == "undefined"

\* the keywords explored, as lists of characters: "a", "b" and "a,b"
Keywords == {<<"a">>, <<"b">>, <<"a", ",", "b">>}
\* UTF-16 code units of their characters
CodeUnit(ch) == IF ch = "," THEN 44 ELSE IF ch = "a" THEN 97 ELSE 98

\* the records whose digest is taken
Records ==
    [question : {"x", "y"}, answer : {"x", "y"}, category : {Undefined, "", "c"},
     audience : {"", "u"}, keywords : SeqsUpTo(Keywords, MaxKw)]

RECURSIVE StrLess(_, _)
\* s sorts before t: comparison of strings by code units
StrLess(s, t) ==
    IF t = <<>> THEN FALSE
    ELSE IF s = <<>> THEN TRUE
    ELSE IF CodeUnit(Head(s)) # CodeUnit(Head(t)) THEN CodeUnit(Head(s)) < CodeUnit(Head(t))
    ELSE StrLess(Tail(s), Tail(t))

\* where a stable ascending sort puts k among the already sorted ks
InsertAsc(ks, k) ==
    LET n == Cardinality({j \in 1..Len(ks) : ~StrLess(k, ks[j])})
    IN SubSeq(ks, 1, n) \o <<k>> \o SubSeq(ks, n + 1, Len(ks))

\* (variant) the keywords are left in the order they have
SortStrings_AsGiven(ks) == ks

RECURSIVE SortStrings(_)
\* keywords.sort(): ascending by code units
SortStrings(ks) ==
    IF ks = <<>> THEN <<>>
    ELSE InsertAsc(SortStrings(SubSeq(ks, 1, Len(ks) - 1)), ks[Len(ks)])

RECURSIVE Join(_)
\* keywords.join(',')
Join(ks) ==
    IF ks = <<>> THEN <<>>
    ELSE IF Len(ks) = 1 THEN ks[1]
    ELSE ks[1] \o <<",">> \o Join(Tail(ks))

\* x || '' on a string or undefined
OrEmpty(x) == IF x = Undefined \/ x = "" THEN "" ELSE x

\* the record after calculateQuestionHash(questionObj): Array.prototype.sort
\* sorts questionObj.keywords in place and returns the same array
AfterHash(questionObj) == [questionObj EXCEPT !.keywords = SortStrings(@)]

\* calculateQuestionHash: the object given to JSON.stringify.  JSON.stringify
\* gives different texts for objects that differ in a field.
canonicalForm(questionObj) ==
    [question |-> questionObj.question,
     answer |-> questionObj.answer,
     category |-> OrEmpty(questionObj.category),
     audience |-> OrEmpty(questionObj.audience),
     keywords |-> Join(SortStrings(questionObj.keywords))]

\* ------------------------------------------------- the limit of POST /search

\* the characters of the strings explored as topK
Alphabet == {"0", "5", "9", "-", " ", "x", "."}
DigitOf(ch) == IF ch = "5" THEN 5 ELSE IF ch = "9" THEN 9 ELSE 0
IsDigit(ch) == ch \in {"0", "5", "9"}

RECURSIVE TrimStart(_)
TrimStart(str) == IF str # <<>> /\ Head(str) = " " THEN TrimStart(Tail(str)) ELSE str

RECURSIVE DigitsPrefix(_)
\* the longest prefix of digits
DigitsPrefix(str) ==
    IF str # <<>> /\ IsDigit(Head(str)) THEN <<Head(str)>> \o DigitsPrefix(Tail(str)) ELSE <<>>

RECURSIVE ValueOf(_, _)
ValueOf(ds, radix) ==
    IF ds = <<>> THEN 0 ELSE ValueOf(SubSeq(ds, 1, Len(ds) - 1), radix) * radix + DigitOf(ds[Len(ds)])

\* parseInt(string): leading white space is skipped, then an optional sign,
\* then 0x and hexadecimal digits or decimal digits; NaN when no digit is there
parseIntString(str) ==
    LET t == TrimStart(str)
        neg == t # <<>> /\ Head(t) = "-"
        u == IF neg THEN Tail(t) ELSE t
        hex == Len(u) >= 2 /\ u[1] = "0" /\ u[2] = "x"
        ds == IF hex THEN DigitsPrefix(SubSeq(u, 3, Len(u))) ELSE DigitsPrefix(u)
        n == ValueOf(ds, IF hex THEN 16 ELSE 10)
    IN IF ds = <<>> THEN [nan |-> TRUE, v |-> 0]
       ELSE [nan |-> FALSE, v |-> IF neg THEN 0 - n ELSE n]

\* parseInt(topK): the argument is turned into a string first.  A number is
\* given in tenths (its decimal notation has no exponent), so its integer
\* part is what is parsed.
parseInt(raw) ==
    IF raw.t = "string" THEN parseIntString(raw.str)
    ELSE IF raw.t = "number"
    THEN [nan |-> FALSE,
          v |-> IF raw.tenths >= 0 THEN raw.tenths \div 10 ELSE 0 - ((0 - raw.tenths) \div 10)]
    ELSE [nan |-> TRUE, v |-> 0]

\* the truthiness of topK
Truthy(raw) ==
    IF raw.t = "string" THEN raw.str # <<>>
    ELSE IF raw.t = "number" THEN raw.tenths # 0
    ELSE IF raw.t = "boolean" THEN raw.b
    ELSE FALSE

\* a limit that passes a positive topK through as it is
LimitOf_NoCap(raw) ==
    IF Truthy(raw) /\ ~parseInt(raw).nan /\ parseInt(raw).v > 0
    THEN parseInt(raw).v
    ELSE DEFAULT_LIMIT

\* const limit = topK && !isNaN(parseInt(topK)) && parseInt(topK) > 0
\*     ? Math.min(parseInt(topK), 50) : 10
LimitOf(raw) ==
    IF Truthy(raw) /\ ~parseInt(raw).nan /\ parseInt(raw).v > 0
    THEN Min(parseInt(raw).v, MAX_LIMIT)
    ELSE DEFAULT_LIMIT

\* the values of req.body.topK explored: absent, null, booleans, numbers
\* around 0 and around 50 (in tenths), strings over Alphabet
TopKInputs ==
    {[t |-> "undefined"], [t |-> "null"]}
        \cup {[t |-> "boolean", b |-> b] : b \in BOOLEAN}
        \cup {[t |-> "number", tenths |-> n] : n \in (-25..25) \cup (485..515)}
        \cup {[t |-> "string", str |-> str] : str \in SeqsUpTo(Alphabet, MaxStr)}

\* the values of topK sent when the search itself is explored
SrchInputs ==
    {[t |-> "undefined"]} \cup {[t |-> "number", tenths |-> 10 * k] : k \in 1..SrchK}

\* chunkMetadataMap.set(`question_${i}`, metadata): a Map keeps the position of a
\* key it already holds and puts a new key last
MapSet(m, i, c) ==
    IF \E k \in 1..Len(m) : m[k].index = i
    THEN [k \in 1..Len(m) |-> IF m[k].index = i THEN [index |-> i, content |-> c] ELSE m[k]]
    ELSE Append(m, [index |-> i, content |-> c])

RECURSIVE MapSetAll(_, _, _)
\* for (let i = 0; i < questionsData.length; i++) chunkMetadataMap.set(...), from index i on
MapSetAll(m, q, i) ==
    IF i >= Len(q) THEN m ELSE MapSetAll(MapSet(m, i, q[i + 1]), q, i + 1)

\* ---------------------------------------------------------------- the state

NoCache == [exists |-> FALSE, valid |-> FALSE, vectors |-> <<>>]
NoLedger == [exists |-> FALSE, map |-> <<>>]
NoHash == [exists |-> FALSE, of |-> <<>>]

HistInit ==
    [calls |-> <<>>, classified |-> FALSE, changed |-> {}, new |-> {}, deleted |-> {},
     wroteCache |-> FALSE, wroteLedger |-> FALSE, cacheFailed |-> FALSE, fault |-> FALSE,
     failedAt |-> -1, left |-> {}, preCache |-> NoCache, preLedger |-> NoLedger,
     preHash |-> NoHash, by |-> "none"]

\* no POST /search request is being served; no call of searchSimilarQuestions
NoReq == [t |-> "none"]
\* (busy: whether a pass was under way when the results were resolved; observation only)
NoSearch == [stage |-> "idle", app |-> NoApp, topK |-> 0, busy |-> FALSE]

\* the file the store on its own saves to; from: the store that wrote it (observation only)
NoStoreFile == [exists |-> FALSE, text |-> <<>>, from |-> NewStore]
\* no call made on the store yet
NoCall == [op |-> "none", on |-> "none", arg |-> <<>>, ret |-> <<>>, before |-> NewStore]
\* no pair of records hashed
NoPair == [t |-> "none"]
\* the handlers of the CRUD requests explored, and one that serves no request
Handlers == 1..NumHandlers
NoHandler == [op |-> "none", stage |-> "idle", questions |-> <<>>, id |-> -1,
              content |-> NoContent, success |-> FALSE]
\* no request received; base: questions.json when the first one is (observation only)
NoRequests == [base |-> <<>>, of |-> [h \in Handlers |-> NoHandler]]

NoSnap == [valid |-> FALSE, store |-> <<>>, cache |-> NoCache,
           ledger |-> NoLedger, retry |-> {}, failedAt |-> -1]

InitCommon ==
    /\ cacheFile = NoCache
    /\ ledgerFile = NoLedger
    /\ hashFile = NoHash
    /\ questionsData = <<>>
    /\ isInitialized = FALSE
    /\ ragApp = NoApp
    /\ db = [p \in Procs |-> <<>>]
    /\ pc = [p \in Procs |-> "idle"]
    /\ cacheLoaded = [p \in Procs |-> FALSE]
    /\ todo = [p \in Procs |-> <<>>]
    /\ cursor = [p \in Procs |-> 0]
    /\ booted = FALSE
    /\ hist = [p \in Procs |-> HistInit]
    /\ snap = NoSnap
    /\ chunkMetadataMap = <<>>
    /\ srch = NoSearch
    /\ hits = <<>>
    /\ store = NewStore
    /\ file = NoStoreFile
    /\ loaded = NewStore
    /\ last = NoCall
    /\ pair = NoPair

\* a deployment whose I/O may fail and whose requests arrive one at a time
Init ==
    /\ corpusFile \in SeqsUpTo(InitialContents, MaxLen)
    /\ InitCommon
    /\ handlers = NoRequests
    /\ req = NoReq
    /\ env = [left |-> MaxEnv, kinds |-> {}, faults |-> TRUE, seq |-> TRUE,
              quiet |-> FALSE, passes |-> -1, owed |-> -1]

\* a deployment whose I/O succeeds and whose requests overlap
ConcInit ==
    /\ corpusFile \in SeqsUpTo(Contents, ConcLen)
    /\ InitCommon
    /\ handlers = NoRequests
    /\ req = NoReq
    /\ env = [left |-> MaxWrites, kinds |-> {}, faults |-> FALSE, seq |-> FALSE,
              quiet |-> FALSE, passes |-> MaxPasses, owed |-> -1]

\* a deployment whose I/O succeeds and whose CRUD requests overlap: every
\* refreshRAG is the one a CRUD handler calls after its write
MutInit ==
    /\ corpusFile \in SeqsUpTo(Contents, MutLen)
    /\ InitCommon
    /\ handlers = NoRequests
    /\ req = NoReq
    /\ env = [left |-> MutWrites, kinds |-> {}, faults |-> FALSE, seq |-> FALSE,
              quiet |-> FALSE, passes |-> MutPasses, owed |-> 0]

\* a POST /search request with some topK is served while requests overlap
SearchInit ==
    /\ corpusFile \in SeqsUpTo(Contents, SrchLen)
    /\ InitCommon
    /\ handlers = NoRequests
    /\ req \in SrchInputs
    /\ env = [left |-> MaxWrites, kinds |-> {}, faults |-> FALSE, seq |-> FALSE,
              quiet |-> FALSE, passes |-> SrchPasses, owed |-> -1]

\* a POST /search request with some topK is served, requests arriving one at a time
QueryInit ==
    /\ corpusFile \in SeqsUpTo(Contents, QryLen)
    /\ InitCommon
    /\ handlers = NoRequests
    /\ req \in SrchInputs
    /\ env = [left |-> QryEnv, kinds |-> {}, faults |-> TRUE, seq |-> TRUE,
              quiet |-> FALSE, passes |-> -1, owed |-> -1]

\* a deployment whose I/O succeeds and whose CRUD handlers overlap, each
\* taken await by await
CrudInit ==
    /\ corpusFile \in SeqsUpTo(Contents, CrudLen)
    /\ InitCommon
    /\ handlers = [NoRequests EXCEPT !.base = corpusFile]
    /\ req = NoReq
    /\ env = [left |-> NumHandlers, kinds |-> {}, faults |-> FALSE, seq |-> FALSE,
              quiet |-> FALSE, passes |-> CrudPasses, owed |-> 0]

\* the records of a corpus whose keywords are looked at
KwRecords ==
    {r \in Records : r.question = "x" /\ r.answer = "x" /\ r.category = "c" /\ r.audience = "u"}

\* a corpus of records with their keywords; nothing loaded yet
KwInit ==
    /\ corpusFile \in SeqsUpTo(KwRecords, KwLen)
    /\ InitCommon
    /\ handlers = NoRequests
    /\ req = NoReq
    /\ env = [left |-> 0, kinds |-> {}, faults |-> FALSE, seq |-> TRUE,
              quiet |-> FALSE, passes |-> 0, owed |-> -1]

\* a POST /search request with any topK
ClampInit ==
    /\ corpusFile = <<>>
    /\ InitCommon
    /\ handlers = NoRequests
    /\ req \in TopKInputs
    /\ env = [left |-> 0, kinds |-> {}, faults |-> FALSE, seq |-> FALSE,
              quiet |-> FALSE, passes |-> 1, owed |-> -1]

\* a store built, filled and saved by one run, and loaded by the next
AloneInit ==
    /\ corpusFile = <<>>
    /\ InitCommon
    /\ handlers = NoRequests
    /\ req = NoReq
    /\ env = [left |-> 0, kinds |-> {}, faults |-> FALSE, seq |-> TRUE,
              quiet |-> FALSE, passes |-> 0, owed |-> -1]

\* no record hashed yet
HashInit ==
    /\ corpusFile = <<>>
    /\ InitCommon
    /\ handlers = NoRequests
    /\ req = NoReq
    /\ env = [left |-> 0, kinds |-> {}, faults |-> FALSE, seq |-> TRUE,
              quiet |-> FALSE, passes |-> 0, owed |-> -1]

\* the outcomes an I/O call can have in the current environment
Outcomes == IF env.faults /\ env.left > 0 THEN {TRUE, FALSE} ELSE {TRUE}

\* the environment after an I/O call with the given outcome(s)
\* env.owed counts the CRUD writes whose handler has not called refreshRAG yet (-1: not counted)
Spend(kind) ==
    [env EXCEPT !.left = @ - 1, !.kinds = @ \cup {kind}, !.quiet = FALSE,
                !.owed = IF kind = "crud" /\ @ >= 0 THEN @ + 1 ELSE @]
AfterIO(ok) == IF ok THEN env ELSE Spend("fault")

InFlight(p) == pc[p] \notin {"idle", "done", "failed"}

\* p's pass has replaced questionsData and has not reached its end
Reconciling(p) ==
    pc[p] \in {"load_cache", "find_changes", "inc_embed", "full_embed", "save_cache",
               "save_ledger", "nc_save"}

\* a caller may start when requests are served one at a time only if none is being served
MayStart(p) ==
    /\ pc[p] = "idle"
    /\ env.seq => (p = 1 /\ \A q \in Procs : pc[q] = "idle")
    /\ env.seq => srch.stage \in {"idle", "called"}

\* env.passes bounds the passes of a run with overlapping requests (-1: unbounded)
\* by: the caller of initializeRAG ("listen", "refresh" or "search")
StartPass(p, by) ==
    /\ env.passes # 0
    \* refreshRAG is called by a CRUD handler after its write; where the writes
    \* are not counted, a call without a write before it is that of a PUT that
    \* rewrites a record as it is, which needs a record
    /\ by = "refresh" => \/ env.owed > 0
                         \/ env.owed = -1 /\ (corpusFile # <<>> \/ "crud" \in env.kinds)
    /\ env' = [env EXCEPT !.passes = IF @ > 0 THEN @ - 1 ELSE @,
                          !.owed = IF by = "refresh" /\ @ > 0 THEN @ - 1 ELSE @]
    /\ pc' = [pc EXCEPT ![p] = "load_questions"]
    /\ hist' = [hist EXCEPT ![p] = [HistInit EXCEPT !.preCache = cacheFile,
                                                     !.preLedger = ledgerFile,
                                                     !.preHash = hashFile,
                                                     !.by = by]]

\* ------------------------------------------------------------ the callers

\* index.js: the listen callback calls initializeRAG() once the server is up
Startup(p) ==
    /\ ~booted
    /\ p = 1
    /\ pc[p] = "idle"
    /\ ~isInitialized
    /\ booted' = TRUE
    /\ StartPass(p, "listen")
    /\ UNCHANGED <<alone, files, questionsData, isInitialized, ragApp, db, locals, snap, chunkMetadataMap, searching>>

\* refreshRAG: reset the flag, then initializeRAG()
refreshRAG(p) ==
    /\ booted
    /\ MayStart(p)
    /\ isInitialized' = FALSE
    /\ StartPass(p, "refresh")
    /\ UNCHANGED <<alone, files, questionsData, ragApp, db, locals, booted, snap, chunkMetadataMap, searching>>

\* searchSimilarQuestions: if (!isInitialized) await initializeRAG()
SearchEnsureInit(p) ==
    /\ booted
    /\ MayStart(p)
    /\ ~isInitialized
    /\ StartPass(p, "search")
    /\ UNCHANGED <<alone, files, questionsData, isInitialized, ragApp, db, locals, booted, snap, chunkMetadataMap, searching>>

\* ---------------------------------------------------------- initializeRAG

\* await loadQuestions(): questionsData = JSON.parse(file), or the error is rethrown
LoadQuestions(p) ==
    /\ pc[p] = "load_questions"
    /\ \E ok \in Outcomes :
        /\ env' = AfterIO(ok)
        /\ IF ok
           THEN /\ questionsData' = corpusFile
                /\ pc' = [pc EXCEPT ![p] = "load_cache"]
                /\ hist' = hist
           ELSE /\ questionsData' = questionsData
                /\ pc' = [pc EXCEPT ![p] = "failed"]
                /\ hist' = [hist EXCEPT ![p].fault = TRUE]
    /\ UNCHANGED <<alone, files, isInitialized, ragApp, db, locals, booted, snap, chunkMetadataMap, searching>>

\* new SimpleMemoryVectorDatabase(); loadFromFile; build() (init keeps the
\* loaded vectors, so the reload-after-build branch is never taken); then the
\* choice between the incremental path and the full rebuild.
LoadCache(p) ==
    /\ pc[p] = "load_cache"
    \* stores are named after the caller that created them: a name that a
    \* search in flight still refers to is not given to a new store
    /\ srch.stage = "embedding" => srch.app # p
    /\ LET r == loadFromFile(cacheFile)
           incremental == r.found /\ Len(r.vectors) > 0
       IN /\ db' = [db EXCEPT ![p] = r.vectors]
          /\ cacheLoaded' = [cacheLoaded EXCEPT ![p] = r.found]
          /\ ragApp' = p
          /\ cursor' = [cursor EXCEPT ![p] = 0]
          /\ pc' = [pc EXCEPT ![p] =
                      IF incremental THEN "find_changes" ELSE "full_embed"]
    /\ UNCHANGED <<alone, files, questionsData, isInitialized, todo, booted, env, hist, snap, chunkMetadataMap, searching>>

\* The chunks of record i are inserted through the global ragApp, whose
\* vectorDatabase is the one of the activation that built it last.
Inserted(i) == [db EXCEPT ![ragApp] = @ \o ChunksOf(i, questionsData[i + 1])]

\* findChangedQuestions, then either the no-change path (isInitialized = true
\* before the digests are saved) or the deletions of the incremental path.
FindChanges(p) ==
    /\ pc[p] = "find_changes"
    /\ \E ok \in Outcomes :
        LET r == calculateQuestionsIndicesHash(ok, corpusFile)
            stored == getStoredIndicesHash(ledgerFile)
            changed == ChangedOf(r.map, stored)
            new == NewOf(r.map, stored)
            deleted == DeletedOf(r.map, stored)
            work == SortAsc(changed \cup new)
            h == [hist[p] EXCEPT !.classified = TRUE, !.changed = changed, !.new = new,
                                 !.deleted = deleted, !.fault = @ \/ ~ok]
        IN /\ env' = AfterIO(ok)
           /\ questionsData' = IF ok THEN corpusFile ELSE questionsData
           /\ IF r.threw
              THEN /\ pc' = [pc EXCEPT ![p] = "failed"]
                   /\ hist' = [hist EXCEPT ![p].fault = TRUE]
                   /\ UNCHANGED <<alone, db, todo, isInitialized, chunkMetadataMap>>
              ELSE IF changed \cup new = {} /\ deleted = {}
              THEN /\ chunkMetadataMap' = MapSetAll(chunkMetadataMap, questionsData', 0)
                   /\ isInitialized' = TRUE
                   /\ pc' = [pc EXCEPT ![p] = "nc_save"]
                   /\ hist' = [hist EXCEPT ![p] = h]
                   /\ UNCHANGED <<alone, db, todo>>
              ELSE /\ db' = [db EXCEPT ![p] = DeleteAll(@, SortAsc(deleted) \o SortAsc(changed))]
                   /\ todo' = [todo EXCEPT ![p] = work]
                   /\ pc' = [pc EXCEPT ![p] = "inc_embed"]
                   /\ hist' = [hist EXCEPT ![p] = h]
                   /\ UNCHANGED <<alone, isInitialized, chunkMetadataMap>>
    /\ UNCHANGED <<alone, files, ragApp, cacheLoaded, cursor, booted, snap, searching>>

\* one iteration of `for (const i of indicesToProcess)`: the request to the
\* embedder and its completion are one step; a failure leaves the loop by the
\* exception, which initializeRAG logs and rethrows.
IncEmbed(p) ==
    /\ pc[p] = "inc_embed"
    /\ IF todo[p] = <<>>
       THEN \* the loop is over: the metadata of every record is stored again
            /\ chunkMetadataMap' = MapSetAll(chunkMetadataMap, questionsData, 0)
            /\ pc' = [pc EXCEPT ![p] = "save_cache"]
            /\ UNCHANGED <<alone, db, todo, env, hist>>
       ELSE LET i == Head(todo[p]) IN
            IF i >= Len(questionsData)
            THEN \* questionsData[i] is undefined: createSearchableText throws
                 /\ pc' = [pc EXCEPT ![p] = "failed"]
                 /\ hist' = [hist EXCEPT ![p].left = {todo[p][k] : k \in 1..Len(todo[p])}]
                 /\ UNCHANGED <<alone, db, todo, env, chunkMetadataMap>>
            ELSE \E ok \in Outcomes :
                 /\ env' = AfterIO(ok)
                 /\ chunkMetadataMap' = MapSet(chunkMetadataMap, i, questionsData[i + 1])
                 /\ IF ok
                    THEN /\ db' = Inserted(i)
                         /\ todo' = [todo EXCEPT ![p] = Tail(@)]
                         /\ pc' = pc
                         /\ hist' = [hist EXCEPT ![p].calls = Append(@, i)]
                    ELSE /\ pc' = [pc EXCEPT ![p] = "failed"]
                         /\ hist' = [hist EXCEPT ![p].calls = Append(@, i),
                                                 ![p].fault = TRUE,
                                                 ![p].failedAt = i,
                                                 ![p].left = {todo[p][k] : k \in 2..Len(todo[p])}]
                         /\ UNCHANGED <<alone, db, todo>>
    /\ UNCHANGED <<alone, files, questionsData, isInitialized, ragApp, cacheLoaded, cursor, booted, snap, searching>>

\* one iteration of `for (let i = 0; i < questionsData.length; i++)` of the full rebuild
FullEmbed(p) ==
    /\ pc[p] = "full_embed"
    /\ LET i == cursor[p] IN
       IF i >= Len(questionsData)
       THEN /\ pc' = [pc EXCEPT ![p] = "save_cache"]
            /\ UNCHANGED <<alone, db, cursor, env, hist, chunkMetadataMap>>
       ELSE \E ok \in Outcomes :
            /\ env' = AfterIO(ok)
            /\ chunkMetadataMap' = MapSet(chunkMetadataMap, i, questionsData[i + 1])
            /\ IF ok
               THEN /\ db' = Inserted(i)
                    /\ cursor' = [cursor EXCEPT ![p] = i + 1]
                    /\ pc' = pc
                    /\ hist' = [hist EXCEPT ![p].calls = Append(@, i)]
               ELSE /\ pc' = [pc EXCEPT ![p] = "failed"]
                    /\ hist' = [hist EXCEPT ![p].calls = Append(@, i),
                                            ![p].fault = TRUE,
                                            ![p].failedAt = i,
                                            ![p].left = (i + 1)..(Len(questionsData) - 1)]
                    /\ UNCHANGED <<alone, db, cursor>>
    /\ UNCHANGED <<alone, files, questionsData, isInitialized, ragApp, cacheLoaded, todo, booted, snap, searching>>

\* await vectorDatabase.saveToFile(VECTORS_CACHE_FILE); the result is not looked at
SaveCache(p) ==
    /\ pc[p] = "save_cache"
    /\ \E ok \in Outcomes :
        /\ env' = AfterIO(ok)
        /\ cacheFile' = saveToFile(ok, cacheFile, db[p])
        /\ hist' = [hist EXCEPT ![p].wroteCache = ok, ![p].cacheFailed = ~ok,
                                ![p].fault = @ \/ ~ok]
    /\ pc' = [pc EXCEPT ![p] = "save_ledger"]
    /\ UNCHANGED <<alone, corpusFile, ledgerFile, hashFile, questionsData, isInitialized, ragApp,
                   db, locals, booted, snap, chunkMetadataMap, searching>>

\* calculateQuestionsIndicesHash, saveIndicesHash, calculateQuestionsHash, saveHash
Persist(p, okRead, okWrite) ==
    LET r == calculateQuestionsIndicesHash(okRead, corpusFile) IN
    /\ env' = AfterIO(okRead /\ okWrite)
    /\ questionsData' = IF okRead THEN corpusFile ELSE questionsData
    /\ IF r.threw
       THEN /\ pc' = [pc EXCEPT ![p] = "failed"]
            /\ hist' = [hist EXCEPT ![p].fault = TRUE]
            /\ UNCHANGED <<alone, ledgerFile, hashFile>>
       ELSE /\ ledgerFile' = saveIndicesHash(okWrite, ledgerFile, r.map)
            /\ hashFile' = saveHash(okRead, okWrite, hashFile, corpusFile)
            /\ pc' = [pc EXCEPT ![p] = "done"]
            /\ hist' = [hist EXCEPT ![p].wroteLedger = okWrite,
                                    ![p].fault = @ \/ ~(okRead /\ okWrite)]
    /\ UNCHANGED <<alone, corpusFile, cacheFile>>

\* the end of the incremental path and of the full rebuild: the digests are
\* saved, then isInitialized = true
SaveLedger(p) ==
    /\ pc[p] = "save_ledger"
    /\ \E okRead \in Outcomes, okWrite \in Outcomes :
        /\ okRead \/ okWrite
        /\ Persist(p, okRead, okWrite)
        /\ isInitialized' = IF pc'[p] = "done" THEN TRUE ELSE isInitialized
    /\ UNCHANGED <<alone, ragApp, db, locals, booted, snap, chunkMetadataMap, searching>>

\* the end of the no-change path: the digests are saved again, the cache is not
SaveLedgerNoChange(p) ==
    /\ pc[p] = "nc_save"
    /\ \E okRead \in Outcomes, okWrite \in Outcomes :
        /\ okRead \/ okWrite
        /\ Persist(p, okRead, okWrite)
    /\ UNCHANGED <<alone, isInitialized, ragApp, db, locals, booted, snap, chunkMetadataMap, searching>>

\* initializeRAG has returned or thrown: the caller goes on.  snap keeps what
\* the pass left behind, for the next pass to be compared with.
Return(p) ==
    /\ pc[p] \in {"done", "failed"}
    /\ snap' = IF pc[p] = "done"
               THEN [valid |-> TRUE, store |-> db[p],
                     cache |-> cacheFile, ledger |-> ledgerFile, retry |-> {}, failedAt |-> -1]
               ELSE [snap EXCEPT !.valid = FALSE,
                                 !.retry = (hist[p].left \cup {hist[p].failedAt}) \ {-1},
                                 !.failedAt = hist[p].failedAt]
    /\ env' = [env EXCEPT !.quiet = (pc[p] = "done" /\ ~hist[p].fault)]
    /\ pc' = [pc EXCEPT ![p] = "idle"]
    /\ hist' = [hist EXCEPT ![p] = HistInit]
    /\ cacheLoaded' = [cacheLoaded EXCEPT ![p] = FALSE]
    /\ todo' = [todo EXCEPT ![p] = <<>>]
    /\ cursor' = [cursor EXCEPT ![p] = 0]
    /\ UNCHANGED <<alone, files, questionsData, isInitialized, ragApp, db, booted, chunkMetadataMap, searching>>

\* ------------------------------------------- POST /search, searchSimilarQuestions

\* app.post('/search'): the limit is computed from req.body.topK and
\* searchSimilarQuestions(question, limit) is called
PostSearch ==
    /\ booted
    /\ req # NoReq
    /\ srch.stage = "idle"
    /\ env.seq => \A q \in Procs : pc[q] = "idle"
    /\ srch' = [stage |-> "called", app |-> NoApp, topK |-> LimitOf(req), busy |-> FALSE]
    /\ UNCHANGED <<alone, files, memoryVars, chunkMetadataMap, env, req, hits>>

\* searchSimilarQuestions with isInitialized set (otherwise initializeRAG is
\* awaited first, see SearchEnsureInit): ragApp.search(userQuestion) is called
\* on the application of this moment and the query is sent to the embedder
SearchBegin ==
    /\ srch.stage = "called"
    /\ isInitialized
    /\ ragApp # NoApp
    /\ env.seq => \A q \in Procs : pc[q] = "idle"
    /\ srch' = [srch EXCEPT !.stage = "embedding", !.app = ragApp]
    /\ UNCHANGED <<alone, files, memoryVars, chunkMetadataMap, env, req, hits>>

\* the query vector has arrived: the similarity pass over the store of that
\* application, results.slice(0, topK), and the resolution of every result
\* against questionsData and chunkMetadataMap as they are now, in one piece
SearchFinish ==
    /\ srch.stage = "embedding"
    /\ LET vectors == db[srch.app]
           chunks == {vectors[k] : k \in 1..Len(vectors)}
       IN \E sc \in [chunks -> 0..MaxScore], n \in 0..Len(vectors) :
              hits' = searchHits(vectors, sc, n, srch.topK, questionsData, chunkMetadataMap)
    /\ srch' = [srch EXCEPT !.stage = "done", !.busy = \E p \in Procs : Reconciling(p)]
    /\ UNCHANGED <<alone, files, memoryVars, chunkMetadataMap, env, req>>

\* res.json({success: true, ..., data: similarQuestions})
Respond ==
    /\ srch.stage = "done"
    /\ srch' = NoSearch
    /\ req' = NoReq
    /\ hits' = <<>>
    /\ UNCHANGED <<alone, files, memoryVars, chunkMetadataMap, env>>

\* ------------------------------ calls on a SimpleMemoryVectorDatabase on its own

\* the first run works on its store until it has saved it
Filling == ~file.exists

\* build(): the library calls init with the dimensions of the embedder
CallInit ==
    /\ Filling
    /\ store.dimensions = NoDim
    /\ \E d \in Dims :
        /\ store' = init(store, d)
        /\ last' = [op |-> "init", on |-> "store", arg |-> d, ret |-> <<>>, before |-> store]
    /\ UNCHANGED <<program, file, loaded, pair, handlers>>

\* addLoader: the library embeds a piece of text and inserts the chunk
CallInsertChunks ==
    /\ Filling
    /\ store.dimensions # NoDim
    /\ Len(store.vectors) < MaxChunks
    /\ \E c \in ChunkInputs(store.dimensions) :
        /\ store' = insertChunks(store, <<c>>)
        /\ last' = [op |-> "insertChunks", on |-> "store", arg |-> c, ret |-> 1,
                    before |-> store]
    /\ UNCHANGED <<program, file, loaded, pair, handlers>>

\* deleteVectorsByIndex(index): the chunks are filtered, the number removed is returned
CallDeleteVectorsByIndex ==
    /\ Filling
    /\ store.dimensions # NoDim
    /\ \E index \in Tags :
        LET after == deleteVectorsByIndex(store.vectors, index)
        IN /\ store' = [store EXCEPT !.vectors = after]
           /\ last' = [op |-> "deleteVectorsByIndex", on |-> "store", arg |-> index,
                       ret |-> Len(store.vectors) - Len(after), before |-> store]
    /\ UNCHANGED <<program, file, loaded, pair, handlers>>

\* similaritySearch(queryVector, topK): the query vector is the embedder's
CallSimilaritySearch ==
    /\ Filling
    /\ store.dimensions # NoDim
    /\ \E queryVector \in VecsOf(store.dimensions, QueryComps), topK \in 1..MaxK :
        last' = [op |-> "similaritySearch", on |-> "store",
                 arg |-> [queryVector |-> queryVector, topK |-> topK],
                 ret |-> similaritySearch(store.vectors,
                                          ScoresOf(store.vectors, queryVector), topK),
                 before |-> store]
    /\ UNCHANGED <<program, store, file, loaded, pair, handlers>>

\* saveToFile(filePath): true and the file written, or false and the file as it was
CallSaveToFile ==
    /\ Filling
    /\ \E ok \in BOOLEAN :
        /\ file' = IF ok THEN [exists |-> TRUE, text |-> stringifyCache(store), from |-> store]
                   ELSE file
        /\ last' = [op |-> "saveToFile", on |-> "store", arg |-> <<>>, ret |-> ok,
                    before |-> store]
    /\ UNCHANGED <<program, store, loaded, pair, handlers>>

\* the next run: new SimpleMemoryVectorDatabase(); loadFromFile(filePath)
CallLoadFromFile ==
    /\ file.exists
    /\ last.on = "store"
    /\ loaded' = parseCache(file.text)
    /\ last' = [op |-> "loadFromFile", on |-> "loaded", arg |-> <<>>, ret |-> TRUE,
                before |-> loaded]
    /\ UNCHANGED <<program, store, file, pair, handlers>>

\* the next run: build() calls init on the loaded store with the dimensions
\* of the embedder it is configured with
CallInitLoaded ==
    /\ last.on = "loaded"
    /\ last.op = "loadFromFile"
    /\ \E d \in Dims :
        /\ loaded' = init(loaded, d)
        /\ last' = [op |-> "init", on |-> "loaded", arg |-> d, ret |-> <<>>, before |-> loaded]
    /\ UNCHANGED <<program, store, file, pair, handlers>>

\* calculateQuestionHash is applied to two records
HashPair ==
    /\ pair = NoPair
    /\ \E a, b \in Records :
        pair' = [t |-> "hashed", a |-> a, b |-> b,
                 formA |-> canonicalForm(a), formB |-> canonicalForm(b),
                 hashA |-> calculateQuestionHash(canonicalForm(a)),
                 hashB |-> calculateQuestionHash(canonicalForm(b))]
    /\ UNCHANGED <<program, store, file, loaded, last, handlers>>

\* ------------------------------------------------------- the environment

\* a CRUD handler may write questions.json whenever requests overlap, and
\* between passes when they are served one at a time
MayWrite ==
    /\ booted
    /\ env.left > 0
    /\ env.seq => \A q \in Procs : pc[q] = "idle"
    /\ env.seq => srch.stage = "idle"

memoryAndFiles == <<questionsData, isInitialized, ragApp, db, pc, locals, booted, hist, snap,
                    chunkMetadataMap, searching>>

\* POST /questions: questions.push(newQuestion); writeQuestions(questions)
AddQuestion ==
    /\ MayWrite
    /\ Len(corpusFile) < MaxLen
    /\ \E c \in Contents : corpusFile' = Append(corpusFile, c)
    /\ env' = Spend("crud")
    /\ UNCHANGED <<alone, cacheFile, ledgerFile, hashFile, memoryAndFiles>>

\* PUT /questions/:id: questions[id] = {...}; writeQuestions(questions)
EditQuestion ==
    /\ MayWrite
    /\ \E id \in 0..(Len(corpusFile) - 1), c \in Contents :
        /\ c # corpusFile[id + 1]
        /\ corpusFile' = [corpusFile EXCEPT ![id + 1] = c]
    /\ env' = Spend("crud")
    /\ UNCHANGED <<alone, cacheFile, ledgerFile, hashFile, memoryAndFiles>>

\* DELETE /questions/:id: questions.splice(id, 1); writeQuestions(questions)
DeleteQuestion ==
    /\ MayWrite
    /\ \E id \in 0..(Len(corpusFile) - 1) :
        corpusFile' = [k \in 1..(Len(corpusFile) - 1) |->
                          IF k <= id THEN corpusFile[k] ELSE corpusFile[k + 1]]
    /\ env' = Spend("crud")
    /\ UNCHANGED <<alone, cacheFile, ledgerFile, hashFile, memoryAndFiles>>

\* ------------------------------------------- the records and their keywords

\* loadQuestions(): questionsData = JSON.parse(data), the records as the file has them
ReadCorpus ==
    /\ questionsData' = corpusFile
    /\ UNCHANGED <<files, isInitialized, ragApp, db, pc, locals, booted, env, hist, snap,
                   chunkMetadataMap, searching, alone>>

\* calculateQuestionsIndicesHash(), then saveIndicesHash: loadQuestions sets
\* questionsData and returns that same array, and calculateQuestionHash is
\* applied to each of its records
Fingerprint ==
    /\ questionsData' = [k \in 1..Len(corpusFile) |-> AfterHash(corpusFile[k])]
    /\ ledgerFile' = saveIndicesHash(TRUE, ledgerFile,
                         [k \in 1..Len(corpusFile) |->
                             calculateQuestionHash(canonicalForm(corpusFile[k]))])
    /\ UNCHANGED <<corpusFile, cacheFile, hashFile, isInitialized, ragApp, db, pc, locals,
                   booted, env, hist, snap, chunkMetadataMap, searching, alone>>

\* searchSimilarQuestions: a result whose chunk is tagged [INDEX:index]
\* becomes a hit with the keywords of questionsData[index]
HitKeywords ==
    /\ \E index \in 0..(Len(questionsData) - 1) :
        hits' = <<[index |-> index, keywords |-> questionsData[index + 1].keywords, rank |-> 1]>>
    /\ UNCHANGED <<files, memoryVars, env, chunkMetadataMap, req, srch, alone>>

\* ------------------------------- POST, PUT and DELETE /questions, await by await

\* questions.splice(id, 1)
Splice(questions, id) ==
    [k \in 1..(Len(questions) - 1) |-> IF k <= id THEN questions[k] ELSE questions[k + 1]]

\* a request is received once the server listens; each handler serves one
Receives(h) ==
    /\ booted
    /\ handlers.of[h].stage = "idle"

\* POST /questions up to the call of writeQuestions: readQuestions() has
\* resolved, the new record is pushed on the array that was read
PostRead(h) ==
    /\ Receives(h)
    /\ Len(corpusFile) < MaxLen
    /\ \E c \in Contents :
        handlers' = [handlers EXCEPT !.of[h] =
                        [op |-> "post", stage |-> "read", questions |-> Append(corpusFile, c),
                         id |-> -1, content |-> c, success |-> FALSE]]
    /\ UNCHANGED <<program, store, file, loaded, last, pair>>

\* PUT /questions/:id up to the call of writeQuestions: 404 when the array
\* that was read has no such index; otherwise (the keywords having been
\* generated again where needed) questions[id] is replaced
PutRead(h) ==
    /\ Receives(h)
    /\ \E id \in 0..(MaxLen - 1), c \in Contents :
        handlers' = [handlers EXCEPT !.of[h] =
                        IF id >= Len(corpusFile)
                        THEN [op |-> "put", stage |-> "answered", questions |-> corpusFile,
                              id |-> id, content |-> NoContent, success |-> FALSE]
                        ELSE [op |-> "put", stage |-> "read",
                              questions |-> [corpusFile EXCEPT ![id + 1] = c],
                              id |-> id, content |-> c, success |-> FALSE]]
    /\ UNCHANGED <<program, store, file, loaded, last, pair>>

\* DELETE /questions/:id up to the call of writeQuestions
DeleteRead(h) ==
    /\ Receives(h)
    /\ \E id \in 0..(MaxLen - 1) :
        handlers' = [handlers EXCEPT !.of[h] =
                        IF id >= Len(corpusFile)
                        THEN [op |-> "delete", stage |-> "answered", questions |-> corpusFile,
                              id |-> id, content |-> NoContent, success |-> FALSE]
                        ELSE [op |-> "delete", stage |-> "read",
                              questions |-> Splice(corpusFile, id),
                              id |-> id, content |-> corpusFile[id + 1], success |-> FALSE]]
    /\ UNCHANGED <<program, store, file, loaded, last, pair>>

\* await writeQuestions(questions): the file becomes the handler's array
WriteQuestions(h) ==
    /\ handlers.of[h].stage = "read"
    /\ corpusFile' = handlers.of[h].questions
    /\ env' = Spend("crud")
    /\ handlers' = [handlers EXCEPT !.of[h].stage = "written"]
    /\ UNCHANGED <<cacheFile, ledgerFile, hashFile, memoryAndFiles, store, file, loaded, last, pair>>

\* await refreshRAG() has returned or thrown (the error is only logged) and
\* the handler answers: success, and for POST the id questions.length - 1
Answer(h) ==
    /\ handlers.of[h].stage = "written"
    /\ env.owed = 0
    /\ \A p \in Procs : pc[p] = "idle"
    /\ handlers' = [handlers EXCEPT !.of[h].stage = "answered",
                                    !.of[h].success = TRUE,
                                    !.of[h].id = IF handlers.of[h].op = "post"
                                                 THEN Len(handlers.of[h].questions) - 1
                                                 ELSE @]
    /\ UNCHANGED <<program, store, file, loaded, last, pair>>

Handle(h) ==
    \/ PostRead(h)
    \/ PutRead(h)
    \/ DeleteRead(h)
    \/ WriteQuestions(h)
    \/ Answer(h)

\* an operator acts on the artifacts only between passes
MayOperate ==
    /\ env.faults
    /\ env.left > 0
    /\ \A q \in Procs : pc[q] = "idle"

\* the operator deletes vectors_cache.json
DeleteCacheFile ==
    /\ MayOperate
    /\ cacheFile.exists
    /\ cacheFile' = NoCache
    /\ env' = Spend("del")
    /\ UNCHANGED <<alone, corpusFile, ledgerFile, hashFile, memoryAndFiles>>

\* vectors_cache.json is truncated: it exists and does not parse
TruncateCacheFile ==
    /\ MayOperate
    /\ cacheFile.exists /\ cacheFile.valid
    /\ cacheFile' = [exists |-> TRUE, valid |-> FALSE, vectors |-> <<>>]
    /\ env' = Spend("del")
    /\ UNCHANGED <<alone, corpusFile, ledgerFile, hashFile, memoryAndFiles>>

\* the operator deletes questions_indices_hash.json
DeleteLedgerFile ==
    /\ MayOperate
    /\ ledgerFile.exists
    /\ ledgerFile' = NoLedger
    /\ env' = Spend("del")
    /\ UNCHANGED <<alone, corpusFile, cacheFile, hashFile, memoryAndFiles>>

\* the operator deletes questions_hash.txt
DeleteHashFile ==
    /\ MayOperate
    /\ hashFile.exists
    /\ hashFile' = NoHash
    /\ env' = Spend("del")
    /\ UNCHANGED <<alone, corpusFile, cacheFile, ledgerFile, memoryAndFiles>>

\* The process stops, at any point of a pass or between passes, and is started
\* again: the module globals are back at their initial values, the files stay.
Restart ==
    /\ env.faults
    /\ env.left > 0
    /\ booted
    /\ env' = [env EXCEPT !.left = @ - 1,
                          !.kinds = @ \cup {IF \E q \in Procs : pc[q] = "save_ledger"
                                            THEN "crash_between_writes" ELSE "restart"},
                          !.quiet = @ /\ snap.valid]
    /\ questionsData' = <<>>
    /\ isInitialized' = FALSE
    /\ ragApp' = NoApp
    /\ db' = [p \in Procs |-> <<>>]
    /\ pc' = [p \in Procs |-> "idle"]
    /\ cacheLoaded' = [p \in Procs |-> FALSE]
    /\ todo' = [p \in Procs |-> <<>>]
    /\ cursor' = [p \in Procs |-> 0]
    /\ booted' = FALSE
    /\ hist' = [p \in Procs |-> HistInit]
    /\ chunkMetadataMap' = <<>>
    /\ req' = NoReq
    /\ srch' = NoSearch
    /\ hits' = <<>>
    /\ UNCHANGED <<alone, files, snap>>

\* ------------------------------------------------------ the specifications

Pass(p) ==
    \/ LoadQuestions(p)
    \/ LoadCache(p)
    \/ FindChanges(p)
    \/ IncEmbed(p)
    \/ FullEmbed(p)
    \/ SaveCache(p)
    \/ SaveLedger(p)
    \/ SaveLedgerNoChange(p)
    \/ Return(p)

Calls(p) ==
    \/ Startup(p)
    \/ refreshRAG(p)
    \/ SearchEnsureInit(p)

Crud ==
    \/ AddQuestion
    \/ EditQuestion
    \/ DeleteQuestion

Operator ==
    \/ DeleteCacheFile
    \/ TruncateCacheFile
    \/ DeleteLedgerFile
    \/ DeleteHashFile
    \/ Restart

Next ==
    \/ \E p \in Procs : Calls(p) \/ Pass(p)
    \/ Crud
    \/ Operator

\* requests served one at a time; I/O may fail; the operator may intervene
Spec == Init /\ [][Next]_vars

ConcNext ==
    \/ \E p \in Procs : Calls(p) \/ Pass(p)
    \/ Crud

\* overlapping requests; every I/O call succeeds
ConcSpec == ConcInit /\ [][ConcNext]_vars

MutNext ==
    \/ \E p \in Procs : Calls(p) \/ Pass(p)
    \/ Crud

\* overlapping CRUD requests, each write followed by its refreshRAG; every I/O call succeeds
MutSpec == MutInit /\ [][MutNext]_vars

Search ==
    \/ PostSearch
    \/ SearchBegin
    \/ SearchFinish
    \/ Respond

SearchNext ==
    \/ \E p \in Procs : Calls(p) \/ Pass(p)
    \/ Crud
    \/ Search

\* a search request served while other requests overlap; every I/O call succeeds
SearchSpec == SearchInit /\ [][SearchNext]_vars

QueryNext ==
    \/ \E p \in Procs : Calls(p) \/ Pass(p)
    \/ Search

\* a search request served among requests that arrive one at a time and leave
\* the corpus as it is; I/O may fail
QuerySpec == QueryInit /\ [][QueryNext]_vars

ClampNext ==
    \/ \E p \in Procs : Startup(p)
    \/ PostSearch

\* the limit of POST /search for every topK
ClampSpec == ClampInit /\ [][ClampNext]_vars

AloneNext ==
    \/ CallInit
    \/ CallInsertChunks
    \/ CallDeleteVectorsByIndex
    \/ CallSimilaritySearch
    \/ CallSaveToFile
    \/ CallLoadFromFile
    \/ CallInitLoaded

\* the calls of two runs on a SimpleMemoryVectorDatabase taken on its own
AloneSpec == AloneInit /\ [][AloneNext]_vars

HashNext == HashPair

\* calculateQuestionHash applied to pairs of records
HashSpec == HashInit /\ [][HashNext]_vars

CrudNext ==
    \/ \E h \in Handlers : Handle(h)
    \/ Startup(1) \/ refreshRAG(1) \/ Pass(1)

\* overlapping POST, PUT and DELETE /questions handlers, each write followed by a
\* refreshRAG; the passes are taken one at a time here (their overlap is what
\* ConcSpec and MutSpec explore)
CrudSpec == CrudInit /\ [][CrudNext]_vars

KwNext ==
    \/ ReadCorpus
    \/ Fingerprint
    \/ HitKeywords

\* the records in memory while digests are computed and searches are answered
KwSpec == KwInit /\ [][KwNext]_vars

RecoverNext ==
    \/ \E p \in Procs : Calls(p) \/ Pass(p)
    \/ Crud

\* requests served one at a time, I/O that may fail a bounded number of times;
\* a pass that has started goes on, and searches and refreshes keep arriving
RecoverSpec ==
    /\ Init
    /\ [][RecoverNext]_vars
    /\ WF_vars(\E p \in Procs : Pass(p))
    /\ WF_vars(\E p \in Procs : refreshRAG(p) \/ SearchEnsureInit(p))

\* ------------------------------------------------------------- the claims

\* C1: a pass that runs with nothing changed since the previous fault-free pass
\* returned (no CRUD write, no operator action, no failed I/O call) asks the
\* embedder for nothing and leaves the store, the cache artifact and the
\* ledger as that previous pass left them.
C1_Idempotent ==
    \A p \in Procs :
        (pc[p] = "done" /\ env.quiet /\ snap.valid)
            => /\ hist[p].calls = <<>>
               /\ db[p] = snap.store
               /\ cacheFile = snap.cache
               /\ ledgerFile = snap.ledger

\* a second pass has completed over a non-empty store with nothing changed
C1_Witness ==
    \E p \in Procs :
        /\ pc[p] = "done" /\ env.quiet /\ snap.valid
        /\ Len(db[p]) > 1
        /\ hist[p].classified

\* the run so far saw CRUD writes only: no failed I/O call, no operator action, no restart
OnlyCrud == env.kinds \subseteq {"crud"}

\* the chunks of a store whose pageContent is tagged with index i
TaggedAt(vectors, i) == {k \in 1..Len(vectors) : vectors[k].idx = i}

\* C2: a pass over a loaded non-empty cache asks the embedder exactly once for
\* each added or changed index and for no other; the ledger entries of the
\* other indices stay; and no chunk built from the old version of a changed
\* record remains in the store.
C2_IncrementalEmbedding ==
    \A p \in Procs :
        (pc[p] = "done" /\ hist[p].classified /\ OnlyCrud)
            => /\ hist[p].calls = SortAsc(hist[p].changed \cup hist[p].new)
               /\ \A i \in 0..(Len(hist[p].preLedger.map) - 1) :
                      (i < Len(corpusFile) /\ i \notin hist[p].changed)
                          => ledgerFile.map[i + 1] = hist[p].preLedger.map[i + 1]
               /\ \A k \in 1..Len(db[p]) :
                      db[p][k].at \in hist[p].changed
                          => db[p][k].rec = corpusFile[db[p][k].at + 1]

\* C3: after a deletion and the pass that follows it, the ledger is as long as
\* the corpus, every changed index was embedded again, and every chunk carries
\* an index below the corpus length and was built from the record now there.
C3_NoOrphanAfterDelete ==
    \A p \in Procs :
        (pc[p] = "done" /\ hist[p].classified /\ hist[p].deleted # {} /\ OnlyCrud)
            => /\ Len(ledgerFile.map) = Len(corpusFile)
               /\ hist[p].changed \subseteq {hist[p].calls[k] : k \in 1..Len(hist[p].calls)}
               /\ \A k \in 1..Len(db[p]) :
                      /\ db[p][k].idx # NoTag
                      /\ db[p][k].idx < Len(corpusFile)
                      /\ db[p][k].rec = corpusFile[db[p][k].idx + 1]

\* C4: when a pass completes, the ledger exists and each of its entries is the
\* digest of a record embedded at that index.
C4_LedgerMatchesEmbedded ==
    \A p \in Procs :
        pc[p] = "done"
            => /\ ledgerFile.exists
               /\ \A i \in 0..(Len(ledgerFile.map) - 1) :
                      \E k \in TaggedAt(db[p], i) :
                          calculateQuestionHash(db[p][k].rec) = ledgerFile.map[i + 1]

\* C5: when a pass completes, every index of the ledger has a chunk in the
\* store and a chunk in the cache artifact.
C5_LedgerIndicesHaveChunks ==
    \A p \in Procs :
        pc[p] = "done"
            => \A i \in 0..(Len(ledgerFile.map) - 1) :
                   /\ TaggedAt(db[p], i) # {}
                   /\ cacheFile.exists /\ cacheFile.valid
                   /\ TaggedAt(cacheFile.vectors, i) # {}

\* C6: a pass whose cache write failed does not write the ledger.
C6_LedgerOnlyAfterCache ==
    \A p \in Procs : hist[p].wroteLedger => ~hist[p].cacheFailed

\* C7: when the process stopped between the cache write and the ledger write,
\* the pass after the restart ends with no index holding the chunks of two
\* embeddings.
C7_NoDoubleEmbeddingAfterCrash ==
    \A p \in Procs :
        (pc[p] = "done" /\ "crash_between_writes" \in env.kinds
                        /\ env.kinds \subseteq {"crud", "crash_between_writes"})
            => \A i \in 0..(Len(corpusFile) - 1) : getVectorCountByIndex(db[p], i) <= 1

\* C8: a pass in which the embedder failed for one record has embedded all the
\* others it had to, and the pass that follows asks the embedder for that one
\* index only.
C8_EmbedFailureIsPerRecord ==
    \A p \in Procs :
        /\ (pc[p] = "failed" /\ hist[p].failedAt # -1) => hist[p].left = {}
        /\ (pc[p] = "done" /\ snap.failedAt # -1 /\ env.kinds = {"fault"} /\ ~hist[p].fault)
               => hist[p].calls = <<snap.failedAt>>

\* C9: a pass that ended with an error wrote neither the cache artifact nor the
\* ledger, and both files (and the corpus digest) are what they were when it began.
C9_FailedPassWritesNothing ==
    \A p \in Procs :
        pc[p] = "failed"
            => /\ ~hist[p].wroteCache
               /\ ~hist[p].wroteLedger
               /\ cacheFile = hist[p].preCache
               /\ ledgerFile = hist[p].preLedger
               /\ hashFile = hist[p].preHash

\* a pass over existing artifacts failed in the embedder after embedding a record
C9_Witness ==
    \E p \in Procs :
        /\ pc[p] = "failed"
        /\ hist[p].failedAt # -1
        /\ Len(hist[p].calls) > 1
        /\ cacheFile.exists /\ ledgerFile.exists

\* C10: at most one pass is executing.
C10_OnePassAtATime == Cardinality({p \in Procs : InFlight(p)}) <= 1

\* the indices a pass asked the embedder for
Embedded(p) == {hist[p].calls[k] : k \in 1..Len(hist[p].calls)}

\* C11: callers of initialize and search that arrive while the system is not
\* initialized share one pass: no record is embedded by two of them, and the
\* cache and the ledger are not written by two of them.
C11_CoalescedInit ==
    \A p, q \in Procs :
        (p # q /\ hist[p].by = "listen" /\ hist[q].by = "search")
            => /\ Embedded(p) \cap Embedded(q) = {}
               /\ ~(hist[p].wroteCache /\ hist[q].wroteCache)
               /\ ~(hist[p].wroteLedger /\ hist[q].wroteLedger)

\* the vectors hold, for every index of corpus q, a chunk tagged with it, and
\* no chunk built from anything but the record now at its index
Reflects(vectors, q) ==
    /\ \A i \in 0..(Len(q) - 1) : TaggedAt(vectors, i) # {}
    /\ \A k \in 1..Len(vectors) :
           /\ vectors[k].at < Len(q)
           /\ vectors[k].rec = q[vectors[k].at + 1]

\* every CRUD write made so far has had its refreshRAG, and every pass has returned
AllRefreshed ==
    /\ env.owed = 0
    /\ "crud" \in env.kinds
    /\ \A p \in Procs : pc[p] = "idle"

\* C12: two refreshRAG passes never run at the same time, a refreshRAG pass
\* starts from the ledger the previous one wrote, and once every mutation's
\* pass has finished the store, the cache and the ledger are those of the
\* corpus file.
C12_MutationsSerialize ==
    /\ \A p, q \in Procs :
           (p # q /\ hist[p].by = "refresh" /\ hist[q].by = "refresh")
               => ~(InFlight(p) /\ InFlight(q))
    /\ AllRefreshed
           => /\ ledgerFile.map = IndicesHashOf(corpusFile)
              /\ Reflects(cacheFile.vectors, corpusFile)
              /\ Reflects(db[ragApp], corpusFile)

\* C13: a search resolves its results while no pass is under way, and every
\* hit found through a tagged chunk shows the record that chunk was built from.
C13_ReadersSerialized ==
    srch.stage = "done"
        => /\ ~srch.busy
           /\ \A k \in 1..Len(hits) :
                  hits[k].chunk.idx # NoTag
                      => /\ hits[k].index = hits[k].chunk.at
                         /\ hits[k].content = hits[k].chunk.rec

\* C14: a search returns at most topK hits, in non-increasing order of
\* similarity, with ranks 1..n in that order.
C14_RankedAtMostK ==
    srch.stage = "done"
        => /\ Len(hits) <= srch.topK
           /\ \A k \in 1..Len(hits) : hits[k].rank = k
           /\ \A k \in 1..(Len(hits) - 1) : hits[k].similarity >= hits[k + 1].similarity

\* a search has returned two hits of different similarity
C14_Witness ==
    /\ srch.stage = "done"
    /\ Len(hits) >= 2
    /\ hits[1].similarity > hits[2].similarity

\* C15: every hit a search returns names an index of questionsData and shows
\* the record that is there now; none is empty.
C15_StaleHitsSkipped ==
    srch.stage = "done"
        => \A k \in 1..Len(hits) :
               /\ hits[k].index # NoTag
               /\ hits[k].index < Len(questionsData)
               /\ hits[k].content # NoContent
               /\ hits[k].content = questionsData[hits[k].index + 1]

\* C16: no two hits of one search carry the same index.
C16_HitsDistinctByIndex ==
    srch.stage = "done"
        => \A j, k \in 1..Len(hits) :
               (j < k /\ hits[j].index # NoTag) => hits[j].index # hits[k].index

\* C17: the limit POST /search hands to searchSimilarQuestions lies in 1..50.
C17_LimitClamped ==
    srch.stage = "called" => srch.topK \in 1..MAX_LIMIT

\* a topK above 50 was sent and the limit is 50
C17_Witness ==
    /\ srch.stage = "called"
    /\ Truthy(req) /\ ~parseInt(req).nan /\ parseInt(req).v > MAX_LIMIT
    /\ srch.topK = MAX_LIMIT

\* the indices 0 .. n-1 in order: every record of a corpus of n records, once
EachOnce(n) == [k \in 1..n |-> k - 1]

\* C18: the per-index digest map or the corpus digest was deleted while the
\* cache artifact was there; the next start embeds every record of the corpus.
C18_LedgerLossReembedsAll ==
    \A p \in Procs :
        (/\ pc[p] = "done" /\ hist[p].by = "listen" /\ ~hist[p].fault
         /\ "del" \in env.kinds /\ env.kinds \subseteq {"del", "restart"}
         /\ hist[p].preCache.exists /\ hist[p].preCache.valid
         /\ (~hist[p].preLedger.exists \/ ~hist[p].preHash.exists))
            => hist[p].calls = EachOnce(Len(corpusFile))

\* C19: a start that finds the cache artifact present and unreadable embeds
\* every record once and leaves the ledger of the corpus, the one the pass
\* before the truncation had left.
C19_CorruptCacheRebuilds ==
    \A p \in Procs :
        (/\ pc[p] = "done" /\ hist[p].by = "listen" /\ ~hist[p].fault
         /\ hist[p].preCache.exists /\ ~hist[p].preCache.valid)
            => /\ hist[p].calls = EachOnce(Len(corpusFile))
               /\ ledgerFile.exists
               /\ ledgerFile.map = IndicesHashOf(corpusFile)
               /\ (snap.valid /\ env.kinds \subseteq {"del", "restart"})
                      => ledgerFile = snap.ledger

\* a start over a truncated cache and a corpus of two records has finished
C19_Witness ==
    \E p \in Procs :
        /\ pc[p] = "done" /\ hist[p].by = "listen" /\ ~hist[p].fault
        /\ hist[p].preCache.exists /\ ~hist[p].preCache.valid
        /\ snap.valid /\ env.kinds = {"del", "restart"}
        /\ Len(corpusFile) = 2
        /\ Len(hist[p].calls) = 2

\* C20: loadFromFile has returned to initializeRAG: for a missing file it
\* returned false; for a file that does not parse it returned something else
\* than it returns for a missing file; in both cases the store is as created.
C20_AbsenceNotCorruption ==
    \A p \in Procs :
        (pc[p] = "full_embed" /\ cursor[p] = 0)
            => /\ ~hist[p].preCache.exists
                   => (cacheLoaded[p] = FALSE /\ db[p] = <<>>)
               /\ (hist[p].preCache.exists /\ ~hist[p].preCache.valid)
                   => (cacheLoaded[p] # loadFromFile(NoCache).found /\ db[p] = <<>>)

\* the store a call was made on, as it is now
Target == IF last.on = "loaded" THEN loaded ELSE store

\* C21: init changes the dimensions of the store and nothing else: the chunk
\* list is the one before the call.
C21_InitKeepsChunks ==
    last.op = "init"
        => /\ Target.vectors = last.before.vectors
           /\ Target.dimensions = last.arg

\* init was called on a store that had loaded two chunks, with other dimensions
C21_Witness ==
    /\ last.op = "init" /\ last.on = "loaded"
    /\ Len(last.before.vectors) = 2
    /\ last.before.dimensions # last.arg
    /\ Len(loaded.vectors) = 2

\* the positions of the chunks that do not carry index i
KeptAt(vectors, i) == {k \in 1..Len(vectors) : vectors[k].idx # i}
\* the j-th of a set of positions
Nth(S, j) == CHOOSE k \in S : Cardinality({m \in S : m <= k}) = j

\* C22: deleteVectorsByIndex(i) leaves the chunks that do not carry i, in the
\* order they had, removes the others and returns how many it removed.
C22_DeleteByIndexExact ==
    last.op = "deleteVectorsByIndex"
        => LET before == last.before.vectors
               kept == KeptAt(before, last.arg)
           IN /\ Len(store.vectors) = Cardinality(kept)
              /\ \A j \in 1..Len(store.vectors) : store.vectors[j] = before[Nth(kept, j)]
              /\ last.ret = Len(before) - Cardinality(kept)
              /\ store.dimensions = last.before.dimensions

\* the first of two chunks carried the index and was removed, the other stayed
C22_Witness ==
    /\ last.op = "deleteVectorsByIndex"
    /\ Len(last.before.vectors) = 2
    /\ last.before.vectors[1].idx = last.arg
    /\ last.ret = 1
    /\ store.vectors = <<last.before.vectors[2]>>

\* a vector of zero norm
IsZero(v) == \A i \in 1..Len(v) : v[i] = 0

\* C23: similaritySearch returns min(k, N) results in descending order of
\* score, the earlier inserted first among equal scores, none of the chunks
\* left out ranking before one returned; zero norm scores 0; the store is
\* as it was.
C23_SearchTopKStable ==
    last.op = "similaritySearch"
        => LET vectors == last.before.vectors
               q == last.arg.queryVector
               r == last.ret
               N == Len(vectors)
               score == [m \in 1..N |-> cosineSimilarity(q, vectors[m].vec)]
           IN /\ Len(r) = Min(last.arg.topK, N)
              /\ \E f \in [1..Len(r) -> 1..N] :
                    /\ \A j \in 1..Len(r) : r[j].chunk = vectors[f[j]] /\ r[j].score = score[f[j]]
                    /\ \A i, j \in 1..Len(r) :
                           i < j => \/ score[f[i]] > score[f[j]]
                                    \/ score[f[i]] = score[f[j]] /\ f[i] < f[j]
                    /\ \A m \in 1..N :
                           (\A j \in 1..Len(r) : f[j] # m)
                               => \A j \in 1..Len(r) :
                                      \/ score[f[j]] > score[m]
                                      \/ score[f[j]] = score[m] /\ f[j] < m
              /\ \A m \in 1..N : (IsZero(q) \/ IsZero(vectors[m].vec)) => score[m] = 0
              /\ store = last.before

\* two different chunks of the same non-zero score came back in insertion order
C23_Witness ==
    /\ last.op = "similaritySearch"
    /\ Len(last.ret) = 2
    /\ last.ret[1].score = last.ret[2].score
    /\ last.ret[1].score # 0
    /\ last.ret[1].chunk # last.ret[2].chunk
    /\ last.ret[1].chunk = store.vectors[1]

C27_DimensionInvariant ==
    /\ store.dimensions # NoDim
           => \A k \in 1..Len(store.vectors) : Len(store.vectors[k].vec) = store.dimensions
    /\ loaded.dimensions # NoDim
           => \A k \in 1..Len(loaded.vectors) : Len(loaded.vectors[k].vec) = loaded.dimensions

\* the keywords of a list, as a set, and how often k occurs in it
KeywordSet(ks) == {ks[j] : j \in 1..Len(ks)}
Occurs(ks, k) == Cardinality({j \in 1..Len(ks) : ks[j] = k})

\* b has the keywords of a in some order
Permuted(a, b) ==
    /\ Len(a) = Len(b)
    /\ \A k \in KeywordSet(a) \cup KeywordSet(b) : Occurs(a, k) = Occurs(b, k)

\* C25: two records with the same question, answer, category and audience
\* whose keyword lists are permutations of each other have the same digest.
C25_DigestIgnoresKeywordOrder ==
    (/\ pair.t = "hashed"
     /\ pair.a.question = pair.b.question /\ pair.a.answer = pair.b.answer
     /\ pair.a.category = pair.b.category /\ pair.a.audience = pair.b.audience
     /\ Permuted(pair.a.keywords, pair.b.keywords))
        => pair.hashA = pair.hashB

\* two records that differ in the order of two keywords only were hashed
C25_Witness ==
    /\ pair.t = "hashed"
    /\ pair.a.question = pair.b.question /\ pair.a.answer = pair.b.answer
    /\ pair.a.category = pair.b.category /\ pair.a.audience = pair.b.audience
    /\ Len(pair.a.keywords) = 2
    /\ pair.a.keywords[1] # pair.a.keywords[2]
    /\ pair.b.keywords = <<pair.a.keywords[2], pair.a.keywords[1]>>
    /\ pair.hashA = pair.hashB

\* C26: two records that have all their fields and differ in question,
\* answer, category, audience or in their set of keywords have different
\* canonical forms.
C26_FormSensitiveToEdits ==
    (/\ pair.t = "hashed"
     /\ pair.a.category # Undefined /\ pair.b.category # Undefined
     /\ \/ pair.a.question # pair.b.question
        \/ pair.a.answer # pair.b.answer
        \/ pair.a.category # pair.b.category
        \/ pair.a.audience # pair.b.audience
        \/ KeywordSet(pair.a.keywords) # KeywordSet(pair.b.keywords))
        => pair.formA # pair.formB

\* C28: every chunk carries the index of the record it was made from: for
\* every index, getVectorCountByIndex counts all the chunks of that record.
C28_EveryChunkTagged ==
    \A p \in Procs :
        /\ \A k \in 1..Len(db[p]) : db[p][k].idx # NoTag
        /\ \A i \in 0..(MaxLen - 1) :
               getVectorCountByIndex(db[p], i)
                   = Cardinality({k \in 1..Len(db[p]) : db[p][k].at = i})

\* C29: in a pass that found changes, no chunk of a changed or deleted index
\* is left when the first record is sent to the embedder; the records are
\* sent in ascending order of index; and the store never holds chunks of two
\* versions of the record at one index.
C29_DropBeforeReembed ==
    OnlyCrud
        => \A p \in Procs :
               /\ (pc[p] = "inc_embed" /\ hist[p].calls = <<>>)
                      => \A k \in 1..Len(db[p]) :
                             db[p][k].at \notin (hist[p].changed \cup hist[p].deleted)
               /\ hist[p].classified
                      => \A i, j \in 1..Len(hist[p].calls) :
                             i < j => hist[p].calls[i] < hist[p].calls[j]
               /\ \A j, k \in 1..Len(db[p]) :
                      db[p][j].at = db[p][k].at => db[p][j].rec = db[p][k].rec

\* the pass of a refreshRAG has thrown
RefreshFailed == \E p \in Procs : pc[p] = "failed" /\ hist[p].by = "refresh"

\* a pass has completed and the store and the ledger are those of the corpus
Recovered ==
    /\ isInitialized
    /\ \E p \in Procs :
        /\ pc[p] = "done"
        /\ Reflects(db[p], corpusFile)
        /\ ledgerFile.exists
        /\ ledgerFile.map = IndicesHashOf(corpusFile)

\* C30: when the pass of a refreshRAG has thrown, isInitialized is false, and
\* a later pass completes with the store and the ledger of the corpus.
C30_RecoversAfterFailedRefresh ==
    /\ [](RefreshFailed => ~isInitialized)
    /\ RefreshFailed ~> Recovered

\* C31: a pass works on one version of the corpus file.  While a pass is the
\* only one under way, between its loadQuestions and its end, no step replaces
\* the records it loaded (the classification and the final digests are
\* computed from the version that was loaded and embedded), and a ledger
\* written then holds the digests of those records.
C31_OneSnapshotPerPass ==
    [][\A p \in Procs :
           (/\ Reconciling(p)
            /\ \A q \in Procs \ {p} : ~InFlight(q)
            /\ env'.kinds \subseteq {"crud"})
               => /\ questionsData' = questionsData
                  /\ ledgerFile' # ledgerFile
                         => ledgerFile'.map = IndicesHashOf(questionsData)]_vars

\* C32: a pass that went through change detection, whatever the outcome of
\* its reads of the corpus file, classifies as deleted no index that the corpus
\* file still has; the chunks it loaded for the records still in the corpus
\* and not changed stay in its store; and a cache it writes still holds them.
C32_ReadFailureDeletesNothing ==
    \A p \in Procs :
        hist[p].classified
            => /\ \A i \in hist[p].deleted : i >= Len(corpusFile)
               /\ \A i \in 0..(Len(corpusFile) - 1) :
                      (i \notin hist[p].changed /\ TaggedAt(hist[p].preCache.vectors, i) # {})
                          => /\ TaggedAt(db[p], i) # {}
                             /\ hist[p].wroteCache => TaggedAt(cacheFile.vectors, i) # {}

\* the handlers that answered success, and the orders they can be put in
Succeeded == {h \in Handlers : handlers.of[h].success}
Orders(S) == {o \in [1..Cardinality(S) -> S] : \A i, j \in 1..Cardinality(S) : o[i] = o[j] => i = j}

\* the corpus after request r is served alone on corpus q
Served(q, r) ==
    IF r.op = "post" THEN Append(q, r.content)
    ELSE IF r.op = "put" THEN [q EXCEPT ![r.id + 1] = r.content]
    ELSE Splice(q, r.id)

RECURSIVE OneAfterAnother(_, _, _)
\* serving the requests o[k], o[k + 1], ... one after another from corpus q is
\* possible, gives each POST the id it answered, and ends with the corpus file
OneAfterAnother(q, o, k) ==
    IF k > Len(o) THEN q = corpusFile
    ELSE LET r == handlers.of[o[k]]
         IN /\ IF r.op = "post" THEN r.id = Len(q) ELSE r.id < Len(q)
            /\ OneAfterAnother(Served(q, r), o, k + 1)

\* C33: once every request has been answered, the corpus file is what the
\* requests that answered success give when served one after another in some
\* order, and the id each POST answered is the position its record was given.
C33_NoLostUpdate ==
    (\A h \in Handlers : handlers.of[h].stage = "answered")
        => \E o \in Orders(Succeeded) : OneAfterAnother(handlers.base, o, 1)

\* C34: once the digests of the corpus have been computed, every record in
\* memory has its keywords in the order the corpus file gives them, and so
\* has every search hit.
C34_HashingLeavesKeywords ==
    ledgerFile.exists
        => /\ \A k \in 1..Len(questionsData) :
                  questionsData[k].keywords = corpusFile[k].keywords
           /\ \A j \in 1..Len(hits) :
                  hits[j].keywords = corpusFile[hits[j].index + 1].keywords
====
